---- MODULE Spec2Model ----
(***************************************************************************)
(* A model of src/app.py: a Flask front-end that fetches the results of a  *)
(* Dune query and shows them (POST /fetch) or returns them as a CSV file   *)
(* (POST /download).                                                       *)
(*                                                                         *)
(* A character is its Unicode code point and a string the code inspects    *)
(* character by character (a form field, a file name) is the sequence of   *)
(* its code points.  A JSON payload is a record that keeps, for every      *)
(* level the code looks at, the Python type of the value and the outcome   *)
(* of the membership test the code makes.  A message is the sequence of    *)
(* the pieces an f-string joins.                                           *)
(***************************************************************************)
EXTENDS Integers, Sequences, FiniteSets, Bags, TLC

VARIABLES inflight, route, form, upstream, calls, response, name, fallback, final_name

vars == <<inflight, route, form, upstream, calls, response, name, fallback, final_name>>

(***************************************************************************)
(* Characters and Python's str methods                                     *)
(***************************************************************************)

\* The printable ASCII characters, code points 32 to 126, in order; the
\* place of the grave accent, 96, is left empty.
Printable ==
    <<" ", "!", "\"", "#", "$", "%", "&", "'", "(", ")", "*", "+", ",", "-", ".", "/",
      "0", "1", "2", "3", "4", "5", "6", "7", "8", "9", ":", ";", "<", "=", ">", "?",
      "@", "A", "B", "C", "D", "E", "F", "G", "H", "I", "J", "K", "L", "M", "N", "O",
      "P", "Q", "R", "S", "T", "U", "V", "W", "X", "Y", "Z", "[", "\\", "]", "^", "_",
      "", "a", "b", "c", "d", "e", "f", "g", "h", "i", "j", "k", "l", "m", "n", "o",
      "p", "q", "r", "s", "t", "u", "v", "w", "x", "y", "z", "{", "|", "}", "~">>

\* ord(c) of a printable ASCII character.
Ord(c) == 31 + (CHOOSE i \in DOMAIN Printable : Printable[i] = c)

\* The string written as the sequence of its printable ASCII characters.
Text(s) == [i \in DOMAIN s |-> Ord(s[i])]

Range(s) == {s[i] : i \in DOMAIN s}

\* The characters str.strip() removes, those with str.isspace(): the ASCII
\* controls \t \n \v \f \r, the separators FS GS RS US, the space, NEL,
\* the no-break space and the Unicode space and line separators.
Whitespace ==
    (9..13) \cup (28..32) \cup {133, 160, 5760} \cup (8192..8202)
        \cup {8232, 8233, 8239, 8287, 12288}

\* The characters int() skips around a literal: the same without the
\* separators FS GS RS US.
IntWhitespace == Whitespace \ (28..31)

\* The code point of the digit zero of every Unicode decimal digit system
\* (general category Nd, Unicode 14); the digits one to nine follow it.
DecimalZeros ==
    {48, 1632, 1776, 1984, 2406, 2534, 2662, 2790, 2918, 3046,
     3174, 3302, 3430, 3558, 3664, 3792, 3872, 4160, 4240, 6112,
     6160, 6470, 6608, 6784, 6800, 6992, 7088, 7232, 7248, 42528,
     43216, 43264, 43472, 43504, 43600, 44016, 65296, 66720, 68912, 69734,
     69872, 69942, 70096, 70384, 70736, 70864, 71248, 71360, 71472, 71904,
     72016, 72784, 73040, 73120, 92768, 92864, 93008, 120782, 120792, 120802,
     120812, 120822, 123200, 123632, 125264, 130032}

\* The character class [A-Za-z0-9._-] of the regular expression.
AllowedChars == (65..90) \cup (97..122) \cup (48..57) \cup {46, 95, 45}

\* s with the characters of `space` removed from both ends.
Trim(s, space) ==
    IF \A i \in DOMAIN s : s[i] \in space THEN <<>>
    ELSE LET first == CHOOSE i \in DOMAIN s :
                          s[i] \notin space /\ \A j \in 1..(i - 1) : s[j] \in space
             last  == CHOOSE i \in DOMAIN s :
                          s[i] \notin space /\ \A j \in (i + 1)..Len(s) : s[j] \in space
         IN  SubSeq(s, first, last)

\* str.strip(): drops the leading and the trailing whitespace.
strip(s) == Trim(s, Whitespace)

\* str.endswith(suffix)
endswith(s, suffix) ==
    /\ Len(suffix) <= Len(s)
    /\ SubSeq(s, Len(s) - Len(suffix) + 1, Len(s)) = suffix

DotCsv == Text(<<".", "c", "s", "v">>)

\* s.lower().endswith(".csv"): the last four characters are ".csv" in some
\* letter case.  str.lower() maps A-Z to a-z, and no character other than
\* C, S and V has c, s or v in its lowercase form.
lower_endswith_csv(s) ==
    /\ Len(s) >= Len(DotCsv)
    /\ \A i \in DOMAIN DotCsv :
         LET c == s[Len(s) - Len(DotCsv) + i]
         IN  (IF c \in 65..90 THEN c + 32 ELSE c) = DotCsv[i]

\* re.sub(r'[^A-Za-z0-9._-]+', '_', s): every maximal run of characters
\* outside the class becomes one underscore.  The first character of a run
\* is replaced and the rest of the run, marked -1, dropped.
IsKept(c) == c # -1

re_sub_disallowed(s) ==
    SelectSeq([i \in DOMAIN s |->
                  IF s[i] \in AllowedChars THEN s[i]
                  ELSE IF i = 1 \/ s[i - 1] \in AllowedChars THEN 95
                  ELSE -1],
              IsKept)

\* s[:n]
Prefix(s, n) == SubSeq(s, 1, IF Len(s) < n THEN Len(s) ELSE n)

\* The names "", "." and ".." that give way to the fallback.
ReservedNames == {<<>>, Text(<<".">>), Text(<<".", ".">>)}

(***************************************************************************)
(* safe_csv_name                                                           *)
(***************************************************************************)

\* The slice [:100].
NameLimit == 100

\* safe_csv_name with the slice [:100] left out.
safe_csv_name_unsliced(n, fb) ==
    LET cut     == re_sub_disallowed(strip(n))
        cleaned == IF cut \in ReservedNames THEN fb ELSE cut
    IN  IF ~lower_endswith_csv(cleaned) THEN cleaned \o DotCsv ELSE cleaned

safe_csv_name(n, fb) ==
    LET stripped == strip(n)
        cut      == Prefix(re_sub_disallowed(stripped), NameLimit)
        cleaned  == IF cut \in ReservedNames THEN fb ELSE cut
    IN  IF ~lower_endswith_csv(cleaned) THEN cleaned \o DotCsv ELSE cleaned

(***************************************************************************)
(* int() and the formatting of an integer in an f-string                   *)
(***************************************************************************)

\* The character is a decimal digit of some script.
IsDecimal(c) == \E z \in DecimalZeros : z <= c /\ c <= z + 9

DigitVal(c) == c - (CHOOSE z \in DecimalZeros : z <= c /\ c <= z + 9)

\* The value of a string of digits and underscores, read left to right.
RECURSIVE DigitsValue(_, _)
DigitsValue(s, acc) ==
    IF s = <<>> THEN acc
    ELSE IF Head(s) = 95 THEN DigitsValue(Tail(s), acc)
         ELSE DigitsValue(Tail(s), 10 * acc + DigitVal(Head(s)))

\* sys.int_max_str_digits as the interpreter starts: the most digits int()
\* converts from a decimal string.
int_max_str_digits == 4300

\* int(s) for a str: surrounding whitespace is ignored, one sign may lead,
\* and the rest is decimal digits of any script with single underscores
\* between them, at most int_max_str_digits digits with the leading zeros
\* counted and the sign and the underscores not.  Anything else raises
\* ValueError.
int(s) ==
    LET t      == Trim(s, IntWhitespace)
        signed == t # <<>> /\ Head(t) \in {43, 45}
        body   == IF signed THEN Tail(t) ELSE t
        wellformed ==
            /\ body # <<>>
            /\ Cardinality({i \in DOMAIN body : body[i] # 95}) <= int_max_str_digits
            /\ \A i \in DOMAIN body : IsDecimal(body[i]) \/ body[i] = 95
            /\ Head(body) # 95
            /\ body[Len(body)] # 95
            /\ \A i \in 1..(Len(body) - 1) : ~(body[i] = 95 /\ body[i + 1] = 95)
        nonzero(i) == body[i] # 95 /\ DigitVal(body[i]) # 0
        \* the zeros and underscores before the first other digit add nothing
        significant ==
            IF \A i \in DOMAIN body : ~nonzero(i) THEN <<>>
            ELSE SubSeq(body,
                        CHOOSE i \in DOMAIN body :
                            nonzero(i) /\ \A j \in 1..(i - 1) : ~nonzero(j),
                        Len(body))
        magnitude == DigitsValue(significant, 0)
    IN  IF ~wellformed THEN [raised |-> "ValueError", value |-> 0]
        ELSE [raised |-> "none",
              value  |-> IF signed /\ Head(t) = 45 THEN 0 - magnitude ELSE magnitude]

RECURSIVE NatChars(_)
NatChars(n) ==
    IF n < 10 THEN <<48 + n>>
    ELSE NatChars(n \div 10) \o <<48 + (n % 10)>>

\* str(n) as an f-string renders it.
IntChars(n) == IF n < 0 THEN <<45>> \o NatChars(0 - n) ELSE NatChars(n)

DuneQuery == Text(<<"d", "u", "n", "e", "_", "q", "u", "e", "r", "y", "_">>)

\* f"dune_query_{query_id}_{utc_ts}.csv"
default_name(query_id, utc_ts) ==
    DuneQuery \o IntChars(query_id) \o <<95>> \o utc_ts \o DotCsv

(***************************************************************************)
(* JSON payloads.  A payload records the Python type of the decoded body,  *)
(* of data["result"] and of data["result"]["metadata"]; has_rows is the    *)
(* value of `"rows" in data["result"]` where the type supports `in` (a key *)
(* of a dict, an element of a list, a substring of a str).  A row object   *)
(* is the sequence of its (key, value) pairs in the order of the JSON      *)
(* text, which is the order Python's dict keeps.                           *)
(***************************************************************************)

NoMetadata == [type |-> "absent", has_column_names |-> FALSE, column_names |-> <<>>]

NoResult == [type |-> "absent", has_rows |-> FALSE, rows |-> <<>>,
             has_metadata |-> FALSE, metadata |-> NoMetadata]

NoPayload == [type |-> "absent", has_result |-> FALSE, result |-> NoResult]

row_keys(row) == [i \in DOMAIN row |-> row[i].k]

row_has(row, key) == \E i \in DOMAIN row : row[i].k = key

\* row[key]; JSON decoding keeps the last pair of a repeated key.
row_get(row, key) ==
    row[CHOOSE i \in DOMAIN row : row[i].k = key /\ \A j \in DOMAIN row : row[j].k = key => j <= i].v

(***************************************************************************)
(* pandas: DataFrame construction from a list of row objects and to_csv.   *)
(* A table is its ordered columns, one dtype per column and the records,   *)
(* each a sequence of cells in column order; a cell is a number or NaN.    *)
(***************************************************************************)

NaN == [null |-> TRUE, v |-> 0]

Cell(v) == [null |-> FALSE, v |-> v]

EmptyTable == [columns |-> <<>>, dtypes |-> <<>>, records |-> <<>>]

RECURSIVE AppendNew(_, _)
AppendNew(cols, keys) ==
    IF keys = <<>> THEN cols
    ELSE AppendNew(IF Head(keys) \in Range(cols) THEN cols ELSE Append(cols, Head(keys)),
                   Tail(keys))

\* The columns pandas infers from a list of dicts: every key, in the order
\* of its first appearance.
RECURSIVE InferColumns(_, _)
InferColumns(rows, cols) ==
    IF rows = <<>> THEN cols
    ELSE InferColumns(Tail(rows), AppendNew(cols, row_keys(Head(rows))))

\* The dtype of a column of integers: object in a frame without rows,
\* int64 when every row has the key, float64 once a NaN stands in it.
ColumnDtype(rows, col) ==
    IF rows = <<>> THEN "object"
    ELSE IF \A i \in DOMAIN rows : row_has(rows[i], col) THEN "int64"
    ELSE "float64"

\* The frame with the given columns: each row's value under a column is
\* the value of that key in the row object, NaN when the row lacks it.
Frame(rows, cols) ==
    [columns |-> cols,
     dtypes  |-> [c \in DOMAIN cols |-> ColumnDtype(rows, cols[c])],
     records |-> [i \in DOMAIN rows |->
                    [c \in DOMAIN cols |->
                        IF row_has(rows[i], cols[c])
                        THEN Cell(row_get(rows[i], cols[c]))
                        ELSE NaN]]]

\* pd.DataFrame(rows, columns=column_names)
DataFrameWithColumns(rows, column_names) == Frame(rows, column_names)

\* pd.DataFrame(rows)
DataFrame(rows) == Frame(rows, InferColumns(rows, <<>>))

\* len(df)
len(df) == Len(df.records)

\* os.linesep on Linux: the line terminator to_csv hands to csv.writer.
os_linesep == <<10>>

\* One cell as to_csv formats it: NaN is the empty field, a float64 column
\* prints its integers with ".0".
CsvField(cell, dtype) ==
    IF cell.null THEN <<>>
    ELSE IF dtype = "float64" THEN IntChars(cell.v) \o <<46, 48>>
    ELSE IntChars(cell.v)

\* The field with every double quote doubled.
RECURSIVE DoubleQuotes(_)
DoubleQuotes(s) ==
    IF s = <<>> THEN <<>>
    ELSE (IF Head(s) = 34 THEN <<34, 34>> ELSE <<Head(s)>>) \o DoubleQuotes(Tail(s))

\* One field as csv.writer writes it with QUOTE_MINIMAL: between double
\* quotes, its own quotes doubled, when it holds the delimiter, the quote
\* character or a character of the line terminator.  (From Python 3.13 on
\* a carriage return is quoted whatever the terminator.)
CsvQuoted(field, lineterminator) ==
    IF \E i \in DOMAIN field : field[i] \in {44, 34} \cup Range(lineterminator)
    THEN <<34>> \o DoubleQuotes(field) \o <<34>>
    ELSE field

RECURSIVE JoinComma(_)
JoinComma(fields) ==
    IF fields = <<>> THEN <<>>
    ELSE IF Len(fields) = 1 THEN Head(fields)
    ELSE Head(fields) \o <<44>> \o JoinComma(Tail(fields))

\* One line as csv.writer writes it: the fields, quoted where needed,
\* joined by commas; a line whose only field is empty is written as "".
CsvLine(fields, lineterminator) ==
    IF Len(fields) = 1 /\ Head(fields) = <<>> THEN <<34, 34>>
    ELSE JoinComma([i \in DOMAIN fields |-> CsvQuoted(fields[i], lineterminator)])

\* df.to_csv(index=False).encode("utf-8"): the header line, then one line
\* per record; the result is the sequence of the lines of the text.
to_csv_bytes(df) ==
    <<CsvLine(df.columns, os_linesep)>> \o
    [i \in DOMAIN df.records |->
        CsvLine([c \in DOMAIN df.columns |-> CsvField(df.records[i][c], df.dtypes[c])],
                os_linesep)]

(***************************************************************************)
(* The upstream service as one call sees it: either requests.get raises    *)
(* an exception with a description, or a response arrives with a status,   *)
(* a reason phrase and a body that is JSON or not; `text` is then the      *)
(* description of the error resp.json() raises.                            *)
(***************************************************************************)

NoUpstream == [kind |-> "none", exc |-> "none", text |-> "", status |-> 0, reason |-> "",
               is_json |-> FALSE, json_error |-> "none", payload |-> NoPayload]

\* requests.exceptions.RequestException and the classes below it.  The
\* error resp.json() raises for a body that is not JSON is one of them from
\* requests 2.27 on ("JSONDecodeError") and a plain ValueError of the json
\* module before ("json.JSONDecodeError").
RequestExceptions ==
    {"RequestException", "InvalidJSONError", "JSONDecodeError", "HTTPError",
     "ConnectionError", "ProxyError", "SSLError", "Timeout", "ConnectTimeout",
     "ReadTimeout", "URLRequired", "TooManyRedirects", "MissingSchema",
     "InvalidSchema", "InvalidURL", "InvalidProxyURL", "InvalidHeader",
     "ChunkedEncodingError", "ContentDecodingError", "StreamConsumedError",
     "RetryError", "UnrewindableBodyError"}

\* f"https://api.dune.com/api/v1/query/{query_id}/results"
url(query_id) == <<"https://api.dune.com/api/v1/query/", ToString(query_id), "/results">>

\* resp.raise_for_status(): raises HTTPError for a 4xx or 5xx status.
raise_for_status(status) == 400 <= status /\ status < 600

\* The description of the HTTPError raise_for_status raises.
http_error_msg(status, reason, at) ==
    <<ToString(status),
      IF status < 500 THEN " Client Error: " ELSE " Server Error: ",
      reason, " for url: ">> \o at

\* fetch_dune_data(api_key, query_id) against the upstream outcome `up`:
\* the exception it raises ("none" when it returns), whether the exception
\* carries a response, its description, and the value returned.
fetch_dune_data(api_key, query_id, up) ==
    IF up.kind = "raises" THEN
        [raised |-> up.exc, has_response |-> FALSE, status |-> 0, reason |-> "",
         text |-> <<up.text>>, value |-> NoPayload]
    ELSE IF raise_for_status(up.status) THEN
        [raised |-> "HTTPError", has_response |-> TRUE, status |-> up.status,
         reason |-> up.reason,
         text |-> http_error_msg(up.status, up.reason, url(query_id)), value |-> NoPayload]
    ELSE IF ~up.is_json THEN
        [raised |-> up.json_error, has_response |-> FALSE, status |-> up.status,
         reason |-> up.reason, text |-> <<up.text>>, value |-> NoPayload]
    ELSE
        [raised |-> "none", has_response |-> FALSE, status |-> up.status,
         reason |-> up.reason, text |-> <<>>, value |-> up.payload]

\* A call that is made once more when it raised.
call_upstream_retrying(api_key, query_id, up) ==
    LET first == fetch_dune_data(api_key, query_id, up)
    IN  IF first.raised # "none"
        THEN [calls |-> <<query_id, query_id>>,
              outcome |-> fetch_dune_data(api_key, query_id, up)]
        ELSE [calls |-> <<query_id>>, outcome |-> first]

\* One invocation of fetch_dune_data by a handler: the log of the calls
\* made (the query id of each) and the outcome the handler goes on with.
call_upstream(api_key, query_id, up) ==
    [calls |-> <<query_id>>, outcome |-> fetch_dune_data(api_key, query_id, up)]

(***************************************************************************)
(* Responses                                                               *)
(***************************************************************************)

\* request.form.get(key, default)
form_get(f, key, default) == IF key \in DOMAIN f THEN f[key] ELSE default

\* flash(message, category)
Flash(category, message) == [category |-> category, message |-> message]

BlankResponse ==
    [kind |-> "none", flashes |-> <<>>, exc |-> "none",
     has_df |-> FALSE, df |-> EmptyTable, total |-> 0,
     has_raw_json |-> FALSE, raw_json |-> NoPayload,
     query_id |-> 0, api_key |-> <<>>, suggested_name |-> <<>>,
     download_name |-> <<>>, mimetype |-> "", csv |-> <<>>]

\* flash(...) followed by redirect(url_for("index"))
Redirect(category, message) ==
    [BlankResponse EXCEPT !.kind = "redirect", !.flashes = <<Flash(category, message)>>]

\* An exception no except clause of the handler catches.
Unhandled(exc) == [BlankResponse EXCEPT !.kind = "unhandled", !.exc = exc]

\* The locals a handler holds across its call.
NoLocals == [api_key |-> <<>>, query_id |-> 0, user_name |-> <<>>]

(***************************************************************************)
(* GET /                                                                   *)
(***************************************************************************)

index == [BlankResponse EXCEPT !.kind = "index"]

(***************************************************************************)
(* POST /fetch                                                             *)
(***************************************************************************)

\* The lines before the call: the fields are read and checked.  Either the
\* handler answers at once, or it proceeds to the call with its locals.
fetch_before_call(f) ==
    LET api_key      == strip(form_get(f, "api_key", <<>>))
        query_id_str == strip(form_get(f, "query_id", <<>>))
        parsed       == int(query_id_str)
    IN  IF api_key = <<>> THEN
            [proceeds |-> FALSE, locals |-> NoLocals,
             response |-> Redirect("warning", <<"Please enter your Dune API key.">>)]
        ELSE IF parsed.raised = "ValueError" THEN
            [proceeds |-> FALSE, locals |-> NoLocals,
             response |-> Redirect("warning", <<"Query ID must be a positive integer.">>)]
        ELSE
            [proceeds |-> TRUE,
             locals   |-> [NoLocals EXCEPT !.api_key = api_key, !.query_id = parsed.value],
             response |-> BlankResponse]

\* The except clauses around the call, in the order they are written.  The
\* first reads e.response.status_code, which raises AttributeError inside
\* the clause when the exception carries no response.
fetch_except(r) ==
    IF r.raised = "HTTPError" THEN
        IF r.has_response
        THEN Redirect("danger", <<"HTTP error: ", ToString(r.status), " ", r.reason>>)
        ELSE Unhandled("AttributeError")
    ELSE IF r.raised \in RequestExceptions THEN
        Redirect("danger", <<"Network error: ">> \o r.text)
    ELSE
        Redirect("danger", <<"Unexpected error: ">> \o r.text)

\* The shape test of the payload and the view of a payload that fails it.
\* `"rows" not in data["result"]` raises TypeError when data["result"] is a
\* number or null.
fetch_shape(data, query_id) ==
    IF data.type # "dict" \/ ~data.has_result
           \/ (data.result.type \in {"dict", "list", "str"} /\ ~data.result.has_rows) THEN
        [BlankResponse EXCEPT !.kind = "results",
                              !.flashes = <<Flash("danger",
                                  <<"API response not in expected format. See raw JSON below.">>)>>,
                              !.has_raw_json = TRUE, !.raw_json = data,
                              !.query_id = query_id]
    ELSE IF data.result.type \notin {"dict", "list", "str"} THEN Unhandled("TypeError")
    ELSE BlankResponse

\* column_names = data["result"]["metadata"]["column_names"]: the exception
\* the subscripts raise, "none" when both succeed.
fetch_column_names(data) ==
    IF data.result.type # "dict" THEN "TypeError"
    ELSE IF ~data.result.has_metadata THEN "KeyError"
    ELSE IF data.result.metadata.type # "dict" THEN "TypeError"
    ELSE IF ~data.result.metadata.has_column_names THEN "KeyError"
    ELSE "none"

\* The table built as download builds it, without the columns argument.
fetch_table_inferred(data) == DataFrame(data.result.rows)

\* The table of a payload that passed the shape test.
fetch_table(data) ==
    DataFrameWithColumns(data.result.rows, data.result.metadata.column_names)

\* The handler after a call that returned: shape test, tabulation, view.
fetch_render(api_key, query_id, data, utc_ts) ==
    LET shape == fetch_shape(data, query_id)
    IN  IF shape.kind # "none" THEN shape
        ELSE IF fetch_column_names(data) # "none" THEN Unhandled(fetch_column_names(data))
        ELSE LET df == fetch_table(data)
             IN  [BlankResponse EXCEPT !.kind = "results",
                                       !.has_df = TRUE, !.df = df, !.total = len(df),
                                       !.query_id = query_id, !.api_key = api_key,
                                       !.suggested_name = default_name(query_id, utc_ts)]

\* The lines from the call on: the calls made upstream and the response.
fetch_after_call(locals, up, utc_ts) ==
    LET c == call_upstream(locals.api_key, locals.query_id, up)
    IN  [calls |-> c.calls,
         response |-> IF c.outcome.raised # "none" THEN fetch_except(c.outcome)
                      ELSE fetch_render(locals.api_key, locals.query_id,
                                        c.outcome.value, utc_ts)]

(***************************************************************************)
(* POST /download                                                          *)
(***************************************************************************)

\* The lines before the call.
download_before_call(f) ==
    LET api_key      == strip(form_get(f, "api_key", <<>>))
        query_id_str == form_get(f, "query_id", Text(<<"0">>))
        user_name    == form_get(f, "filename", <<>>)
        parsed       == int(query_id_str)
        query_id     == IF parsed.raised = "ValueError" THEN 0 ELSE parsed.value
    IN  IF api_key = <<>> \/ query_id = 0 THEN
            [proceeds |-> FALSE, locals |-> NoLocals,
             response |-> Redirect("warning",
                                   <<"Missing API key or Query ID for download.">>)]
        ELSE
            [proceeds |-> TRUE,
             locals   |-> [api_key |-> api_key, query_id |-> query_id,
                           user_name |-> user_name],
             response |-> BlankResponse]

\* type(x).__name__ of a decoded JSON value.
type_name(t) == IF t = "null" THEN "NoneType" ELSE t

\* rows = data.get("result", {}).get("rows", []): the exception raised
\* (AttributeError when data or data["result"] has no .get), its
\* description, and the rows.
download_rows(data) ==
    IF data.type # "dict" THEN
        [raised |-> "AttributeError", rows |-> <<>>,
         text |-> <<"'", type_name(data.type), "' object has no attribute 'get'">>]
    ELSE IF ~data.has_result THEN [raised |-> "none", rows |-> <<>>, text |-> <<>>]
    ELSE IF data.result.type # "dict" THEN
        [raised |-> "AttributeError", rows |-> <<>>,
         text |-> <<"'", type_name(data.result.type), "' object has no attribute 'get'">>]
    ELSE IF ~data.result.has_rows THEN [raised |-> "none", rows |-> <<>>, text |-> <<>>]
    ELSE [raised |-> "none", rows |-> data.result.rows, text |-> <<>>]

\* except Exception as e: flash(f"Download failed: {e}", "danger")
download_except(text) == Redirect("danger", <<"Download failed: ">> \o text)

\* The handler after its try block succeeded: export and attachment.
download_send(rows, query_id, user_name, utc_ts) ==
    LET df == DataFrame(rows)
    IN  [BlankResponse EXCEPT !.kind = "send_file",
                              !.csv = to_csv_bytes(df),
                              !.mimetype = "text/csv",
                              !.download_name =
                                  safe_csv_name(user_name, default_name(query_id, utc_ts))]

\* The lines from the call on.
download_after_call(locals, up, utc_ts) ==
    LET c   == call_upstream(locals.api_key, locals.query_id, up)
        got == download_rows(c.outcome.value)
    IN  [calls |-> c.calls,
         response |->
             IF c.outcome.raised # "none" THEN download_except(c.outcome.text)
             ELSE IF got.raised # "none" THEN download_except(got.text)
             ELSE download_send(got.rows, locals.query_id, locals.user_name, utc_ts)]

(***************************************************************************)
(* Inputs                                                                  *)
(***************************************************************************)

\* The most requests that wait in requests.get at the same time.
MaxInFlight == 2

\* The longest list of row objects in a tabulated payload.
MaxRows == 2

\* The longest column_names list in a tabulated payload.
MaxColumns == 2

\* A candidate file name is a padding of letters followed by at most
\* MaxTokens tokens; the padding is empty, or from PadBelow characters short
\* of the slice length of safe_csv_name to one character past it.
MaxTokens == 3

PadBelow == 4

Injective(q) == \A i, j \in DOMAIN q : q[i] = q[j] => i = j

SeqsUpTo(S, n) == UNION {[1..m -> S] : m \in 0..n}

\* The keys a, b and c, and the key d,"e that a CSV line has to quote.
KeyA == Text(<<"a">>)

KeyB == Text(<<"b">>)

KeyC == Text(<<"c">>)

KeyQuoted == Text(<<"d", ",", "\"", "e">>)

Keys == <<KeyA, KeyB, KeyC, KeyQuoted>>

RowKeys == <<KeyA, KeyB>>

ColumnPool == {KeyA, KeyB, KeyC}

KeyIndex(key) == CHOOSE i \in DOMAIN Keys : Keys[i] = key

KeyOrders == {q \in SeqsUpTo(Range(RowKeys), Len(RowKeys)) : Injective(q)}

\* The list of row objects with the given keys: the number under a key
\* tells the row and the key apart.
RowList(qs) ==
    [i \in DOMAIN qs |->
        [j \in DOMAIN qs[i] |-> [k |-> qs[i][j], v |-> 10 * i + KeyIndex(qs[i][j])]]]

\* Each row holds some of the keys in some order.
RowLists == {RowList(qs) : qs \in SeqsUpTo(KeyOrders, MaxRows)}

ColumnLists == {q \in SeqsUpTo(ColumnPool, MaxColumns) : Injective(q)}

JsonTypes == {"dict", "list", "str", "int", "null"}

\* data["result"]["metadata"]: not an object, an object without
\* column_names, or an object with them.
Metadatas(columnLists) ==
    {[type |-> t, has_column_names |-> FALSE, column_names |-> <<>>] : t \in JsonTypes}
    \cup {[type |-> "dict", has_column_names |-> TRUE, column_names |-> cs] : cs \in columnLists}

\* data["result"]: not an object (the membership test is defined for a
\* list and a str only); an object without rows; an object with rows,
\* without and with metadata.
Results(rowLists, metadatas) ==
    {[type |-> t, has_rows |-> h, rows |-> <<>>, has_metadata |-> FALSE, metadata |-> NoMetadata] :
        t \in {"list", "str"}, h \in BOOLEAN}
    \cup {[type |-> t, has_rows |-> FALSE, rows |-> <<>>, has_metadata |-> FALSE,
           metadata |-> NoMetadata] : t \in {"int", "null"}}
    \cup {[type |-> "dict", has_rows |-> FALSE, rows |-> <<>>, has_metadata |-> FALSE,
           metadata |-> NoMetadata]}
    \cup {[type |-> "dict", has_rows |-> TRUE, rows |-> rs, has_metadata |-> FALSE,
           metadata |-> NoMetadata] : rs \in rowLists}
    \cup {[type |-> "dict", has_rows |-> TRUE, rows |-> rs, has_metadata |-> TRUE,
           metadata |-> m] : rs \in rowLists, m \in metadatas}

\* A decoded body: a value without a result field, or an object with one.
Payloads(types, results) ==
    {[type |-> t, has_result |-> FALSE, result |-> NoResult] : t \in types}
    \cup {[type |-> "dict", has_result |-> TRUE, result |-> r] : r \in results}

\* A 200 answer with the JSON body p.
JsonOutcome(p) ==
    [NoUpstream EXCEPT !.kind = "response", !.status = 200, !.reason = "OK",
                       !.is_json = TRUE, !.payload = p]

\* The payloads the tabulation is checked on.
TablePayloads == Payloads(JsonTypes, Results(RowLists, Metadatas(ColumnLists)))

\* The payloads the server is served: of every shape, with one row.
ServedPayloads ==
    Payloads({"dict", "list", "null"},
             Results({RowList(<< <<KeyB, KeyQuoted, KeyA>> >>)},
                     Metadatas({<<KeyC>>, <<KeyA, KeyB>>})))

\* What a call meets: requests.get raises inside or outside the requests
\* hierarchy, a 4xx or 5xx answer, a 200 answer or a 301 answer without a
\* Location to follow whose body is not JSON, or a 200 answer with a JSON
\* body.
UpstreamOutcomes ==
    {[NoUpstream EXCEPT !.kind = "raises", !.exc = e, !.text = "request failed"] :
        e \in {"ConnectionError", "ReadTimeout", "TooManyRedirects", "UnicodeEncodeError"}}
    \cup {[NoUpstream EXCEPT !.kind = "response", !.status = 404, !.reason = "Not Found"],
          [NoUpstream EXCEPT !.kind = "response", !.status = 500,
                             !.reason = "Internal Server Error"]}
    \cup {[NoUpstream EXCEPT !.kind = "response", !.status = a[1], !.reason = a[2],
                             !.json_error = e,
                             !.text = "Expecting value: line 1 column 1 (char 0)"] :
            a \in {<<200, "OK">>, <<301, "Moved Permanently">>},
            e \in {"JSONDecodeError", "json.JSONDecodeError"}}
    \cup {JsonOutcome(p) : p \in ServedPayloads}

\* A blank key (a space and a form feed) and a key.
ApiKey == Text(<<"k">>)

ApiKeyInputs == {<<>>, <<32, 12>>, ApiKey}

QueryId == Text(<<"5">>)

\* The digit five after as many zeros as int() converts digits: one digit
\* over the limit.
QueryIdTooLong == [i \in 1..int_max_str_digits |-> 48] \o Text(<<"5">>)

\* "", "abc", "-5", "0", "5", the Arabic-Indic digit three between a file
\* separator and a no-break space, and the string of too many digits.
QueryIdInputs ==
    {<<>>, Text(<<"a", "b", "c">>), Text(<<"-", "5">>), Text(<<"0">>), QueryId,
     <<28, 1635, 160>>, QueryIdTooLong}

Filename == Text(<<"a", "/", "b", "*", "c">>)

NoForm == [key \in {} |-> <<>>]

\* The forms a POST /fetch carries: one field varies, or is left out.
FetchForms ==
    {[api_key |-> a, query_id |-> QueryId] : a \in ApiKeyInputs}
    \cup {[api_key |-> ApiKey, query_id |-> q] : q \in QueryIdInputs}
    \cup {[api_key |-> <<>>, query_id |-> <<>>], [api_key |-> ApiKey], [query_id |-> QueryId]}

\* The forms a POST /download carries.
DownloadForms ==
    {[api_key |-> a, query_id |-> QueryId, filename |-> Filename] : a \in ApiKeyInputs}
    \cup {[api_key |-> ApiKey, query_id |-> q, filename |-> Filename] : q \in QueryIdInputs}
    \cup {[api_key |-> <<>>, query_id |-> <<>>, filename |-> Filename],
          [api_key |-> ApiKey, query_id |-> QueryId],
          [api_key |-> ApiKey, filename |-> Filename],
          [query_id |-> QueryId, filename |-> Filename]}

\* datetime.now(timezone.utc).strftime("%Y%m%d_%H%M%S")
Timestamps ==
    {Text(<<"2", "0", "2", "4", "0", "1", "0", "1", "_", "0", "0", "0", "0", "0", "0">>)}

(***************************************************************************)
(* The server.  Flask's server handles each request in a thread of its     *)
(* own, and a handler blocks in requests.get: `inflight` holds the         *)
(* requests that wait there, each with its form and the locals of its      *)
(* handler.  The handlers share no variable; route, form, upstream, calls  *)
(* and response describe the request answered last.                        *)
(***************************************************************************)

\* Each handler up to its call, for every form a request may carry.
FetchStarts == [f \in FetchForms |-> fetch_before_call(f)]

DownloadStarts == [f \in DownloadForms |-> download_before_call(f)]

Waiting(r, f, locals) == [route |-> r, form |-> f, locals |-> locals]

Init ==
    /\ inflight = EmptyBag
    /\ route = "idle"
    /\ form = NoForm
    /\ upstream = NoUpstream
    /\ calls = <<>>
    /\ response = BlankResponse
    /\ name = <<>>
    /\ fallback = <<>>
    /\ final_name = <<>>

\* GET /: the handler runs to its end.
GetIndex ==
    /\ route' = "index"
    /\ form' = NoForm
    /\ upstream' = NoUpstream
    /\ calls' = <<>>
    /\ response' = index
    /\ UNCHANGED <<inflight, name, fallback, final_name>>

\* POST /fetch with a form the handler turns down: it answers at once.
FetchReject ==
    /\ \E f \in FetchForms :
         /\ ~FetchStarts[f].proceeds
         /\ route' = "fetch"
         /\ form' = f
         /\ upstream' = NoUpstream
         /\ calls' = <<>>
         /\ response' = FetchStarts[f].response
    /\ UNCHANGED <<inflight, name, fallback, final_name>>

\* POST /fetch with a form the handler accepts: it enters requests.get.
FetchCall ==
    /\ BagCardinality(inflight) < MaxInFlight
    /\ \E f \in FetchForms :
         /\ FetchStarts[f].proceeds
         /\ inflight' = inflight (+) SetToBag({Waiting("fetch", f, FetchStarts[f].locals)})
    /\ UNCHANGED <<route, form, upstream, calls, response, name, fallback, final_name>>

\* The call of a waiting /fetch ends and the handler runs to its end.
FetchReturn ==
    /\ \E w \in BagToSet(inflight), up \in UpstreamOutcomes, utc_ts \in Timestamps :
         /\ w.route = "fetch"
         /\ inflight' = inflight (-) SetToBag({w})
         /\ route' = "fetch"
         /\ form' = w.form
         /\ upstream' = up
         /\ calls' = fetch_after_call(w.locals, up, utc_ts).calls
         /\ response' = fetch_after_call(w.locals, up, utc_ts).response
    /\ UNCHANGED <<name, fallback, final_name>>

DownloadReject ==
    /\ \E f \in DownloadForms :
         /\ ~DownloadStarts[f].proceeds
         /\ route' = "download"
         /\ form' = f
         /\ upstream' = NoUpstream
         /\ calls' = <<>>
         /\ response' = DownloadStarts[f].response
    /\ UNCHANGED <<inflight, name, fallback, final_name>>

DownloadCall ==
    /\ BagCardinality(inflight) < MaxInFlight
    /\ \E f \in DownloadForms :
         /\ DownloadStarts[f].proceeds
         /\ inflight' = inflight (+)
                SetToBag({Waiting("download", f, DownloadStarts[f].locals)})
    /\ UNCHANGED <<route, form, upstream, calls, response, name, fallback, final_name>>

DownloadReturn ==
    /\ \E w \in BagToSet(inflight), up \in UpstreamOutcomes, utc_ts \in Timestamps :
         /\ w.route = "download"
         /\ inflight' = inflight (-) SetToBag({w})
         /\ route' = "download"
         /\ form' = w.form
         /\ upstream' = up
         /\ calls' = download_after_call(w.locals, up, utc_ts).calls
         /\ response' = download_after_call(w.locals, up, utc_ts).response
    /\ UNCHANGED <<name, fallback, final_name>>

Next ==
    \/ GetIndex
    \/ FetchReject
    \/ FetchCall
    \/ FetchReturn
    \/ DownloadReject
    \/ DownloadCall
    \/ DownloadReturn

Spec == Init /\ [][Next]_vars

(***************************************************************************)
(* Tabulation on its own.  What a handler does with the body its call      *)
(* returned is a function of the body: a body is drawn and each handler's  *)
(* lines from the call on are applied to it once.                          *)
(***************************************************************************)

TableLocals == [api_key |-> ApiKey, query_id |-> 5, user_name |-> Filename]

InitTable ==
    /\ inflight = EmptyBag
    /\ route = "idle"
    /\ form = [api_key |-> ApiKey, query_id |-> QueryId, filename |-> Filename]
    /\ upstream \in {JsonOutcome(p) : p \in TablePayloads}
    /\ calls = <<>>
    /\ response = BlankResponse
    /\ name = <<>>
    /\ fallback = <<>>
    /\ final_name = <<>>

TabulateFetch ==
    /\ route = "idle"
    /\ route' = "fetch"
    /\ \E utc_ts \in Timestamps :
         /\ calls' = fetch_after_call(TableLocals, upstream, utc_ts).calls
         /\ response' = fetch_after_call(TableLocals, upstream, utc_ts).response
    /\ UNCHANGED <<inflight, form, upstream, name, fallback, final_name>>

TabulateDownload ==
    /\ route = "idle"
    /\ route' = "download"
    /\ \E utc_ts \in Timestamps :
         /\ calls' = download_after_call(TableLocals, upstream, utc_ts).calls
         /\ response' = download_after_call(TableLocals, upstream, utc_ts).response
    /\ UNCHANGED <<inflight, form, upstream, name, fallback, final_name>>

NextTable == TabulateFetch \/ TabulateDownload

SpecTable == InitTable /\ [][NextTable]_vars

(***************************************************************************)
(* safe_csv_name on its own: the candidate and the fallback are drawn, the *)
(* function is applied once.                                               *)
(***************************************************************************)

\* A space and a form feed, "/" and an e with acute accent, ".", "a",
\* ".csv" and ".CSV".
NameTokens ==
    {<<32, 12>>, <<47, 233>>, Text(<<".">>), Text(<<"a">>), DotCsv,
     Text(<<".", "C", "S", "V">>)}

RECURSIVE Flatten(_)
Flatten(tokens) == IF tokens = <<>> THEN <<>> ELSE Head(tokens) \o Flatten(Tail(tokens))

Pad(n) == [i \in 1..n |-> 97]

PadLengths == {0} \cup ((NameLimit - PadBelow)..(NameLimit + 1))

Candidates ==
    {Pad(n) \o Flatten(ts) : n \in PadLengths, ts \in SeqsUpTo(NameTokens, MaxTokens)}

\* Fallbacks as download builds them, and a short one.
Fallbacks ==
    {Text(<<"f">>) \o DotCsv} \cup {default_name(5, utc_ts) : utc_ts \in Timestamps}

InitName ==
    /\ inflight = EmptyBag
    /\ route = "idle"
    /\ form = NoForm
    /\ upstream = NoUpstream
    /\ calls = <<>>
    /\ response = BlankResponse
    /\ name \in Candidates
    /\ fallback \in Fallbacks
    /\ final_name = <<>>

Sanitize ==
    /\ route = "idle"
    /\ route' = "safe_csv_name"
    /\ final_name' = safe_csv_name(name, fallback)
    /\ UNCHANGED <<inflight, form, upstream, calls, response, name, fallback>>

NextName == Sanitize

SpecName == InitName /\ [][NextName]_vars

(***************************************************************************)
(* The vocabulary of the properties                                        *)
(***************************************************************************)

Handled == route \in {"fetch", "download"}

\* The credential is empty after trimming.
CredentialMissing(f) == strip(form_get(f, "api_key", <<>>)) = <<>>

\* The query id input parses to a positive integer.
ParsesToPositive(s) == int(s).raised = "none" /\ int(s).value > 0

FailsValidation(f) ==
    CredentialMissing(f) \/ ~ParsesToPositive(form_get(f, "query_id", <<>>))

\* The response is a redirect to the form with one flashed message of the
\* category.
Flashed(category) ==
    /\ response.kind = "redirect"
    /\ Len(response.flashes) = 1
    /\ response.flashes[1].category = category
    /\ ~response.has_df

\* The call of this request returned a decoded JSON body.
ServedJson ==
    /\ upstream.kind = "response"
    /\ upstream.status \in 200..299
    /\ upstream.is_json

\* The call of this request failed.
ServedFailure == upstream.kind \in {"raises", "response"} /\ ~ServedJson

\* The payload is not an object, or has no result, or its result has no
\* rows field.
Malformed(p) ==
    p.type # "dict" \/ ~p.has_result \/ ~(p.result.type = "dict" /\ p.result.has_rows)

HasColumnNames(p) ==
    /\ ~Malformed(p)
    /\ p.result.has_metadata
    /\ p.result.metadata.type = "dict"
    /\ p.result.metadata.has_column_names

\* The classes of a connection failure and of a timeout.
ConnectionFailures ==
    {"ConnectionError", "ProxyError", "SSLError", "Timeout", "ConnectTimeout", "ReadTimeout"}

\* The upstream answered with a status outside 2xx.
ServedStatusFailure == upstream.kind = "response" /\ upstream.status \notin 200..299

\* The keys that occur in the rows.
KeysOf(rows) == UNION {Range(row_keys(rows[i])) : i \in DOMAIN rows}

(***************************************************************************)
(* C1                                                                      *)
(***************************************************************************)

\* C1 (as claimed): a Preview or Download request whose credential is
\* empty after trimming, or whose query id input does not parse to a
\* positive integer, ends with a warning and makes no upstream call.
C1_InvalidRequestMakesNoCall ==
    (Handled /\ FailsValidation(form)) => (calls = <<>> /\ Flashed("warning"))

(***************************************************************************)
(* C2                                                                      *)
(***************************************************************************)

\* C2 (as claimed): the name safe_csv_name returns is non-empty, ends in
\* ".csv", consists of characters of [A-Za-z0-9._-] with at least one of
\* them before the suffix, is at most 104 characters long and is never "",
\* "." or "..".
C2_NameEndsInCsvAfterAStem ==
    route = "safe_csv_name" =>
        /\ final_name # <<>>
        /\ endswith(final_name, DotCsv)
        /\ Range(final_name) \subseteq AllowedChars
        /\ Len(final_name) > Len(DotCsv)
        /\ Len(final_name) <= NameLimit + Len(DotCsv)
        /\ final_name \notin ReservedNames

\* C2 (amended): the name safe_csv_name returns is non-empty, ends in
\* ".csv" in some letter case, consists of characters of [A-Za-z0-9._-],
\* is at most 104 characters long and is never "", "." or ".."; a character
\* precedes the suffix unless the trimmed candidate is itself ".csv" in
\* some letter case.
C2_SafeName ==
    route = "safe_csv_name" =>
        /\ final_name # <<>>
        /\ lower_endswith_csv(final_name)
        /\ Range(final_name) \subseteq AllowedChars
        /\ Len(final_name) <= NameLimit + Len(DotCsv)
        /\ final_name \notin ReservedNames
        /\ \/ Len(final_name) > Len(DotCsv)
           \/ (Len(strip(name)) = Len(DotCsv) /\ lower_endswith_csv(strip(name)))

\* A candidate longer than the slice was cut and given the suffix: the
\* result has the greatest length allowed.
C2_Witness ==
    /\ route = "safe_csv_name"
    /\ Len(name) > NameLimit
    /\ ~lower_endswith_csv(SubSeq(name, 1, NameLimit))
    /\ Len(final_name) = NameLimit + Len(DotCsv)

(***************************************************************************)
(* C3                                                                      *)
(***************************************************************************)

\* C3 (as claimed): in a Preview that passed validation, every payload
\* that is not an object, or lacks result, or whose result lacks rows
\* (whatever the type of result) ends in the error view that carries the
\* raw payload and no table.
C3_MalformedShowsRawPayload ==
    (route = "fetch" /\ ~FailsValidation(form) /\ ServedJson /\ Malformed(upstream.payload)) =>
        /\ response.kind = "results"
        /\ response.has_raw_json
        /\ response.raw_json = upstream.payload
        /\ ~response.has_df
        /\ Len(response.flashes) = 1
        /\ response.flashes[1].category = "danger"

(***************************************************************************)
(* C4                                                                      *)
(***************************************************************************)

\* C4 (as claimed): in a Preview that passed validation, every
\* well-shaped payload yields a table with all rows: with the columns of
\* metadata.column_names when present, with the columns inferred from the
\* row objects when absent.
C4_TableWithOrWithoutMetadata ==
    (route = "fetch" /\ ~FailsValidation(form) /\ ServedJson /\ ~Malformed(upstream.payload)) =>
        /\ response.kind = "results"
        /\ response.has_df
        /\ Len(response.df.records) = Len(upstream.payload.result.rows)
        /\ IF HasColumnNames(upstream.payload)
           THEN response.df.columns = upstream.payload.result.metadata.column_names
           ELSE Range(response.df.columns) = KeysOf(upstream.payload.result.rows)

(***************************************************************************)
(* C5                                                                      *)
(***************************************************************************)

\* C5 (as claimed): every Preview or Download request ends in a redirect
\* with a message, a view or a file attachment; no exception escapes the
\* handler.  Stated of the requests that fail validation without a call
\* and of those that pass it.
C5_NoExceptionEscapes ==
    (Handled /\ (calls = <<>> \/ ~FailsValidation(form))) =>
        response.kind \in {"redirect", "results", "send_file"}

(***************************************************************************)
(* C6                                                                      *)
(***************************************************************************)

\* C6: in Preview, when metadata.column_names is present, the table has
\* exactly those columns in that order and the rows in upstream order, and
\* the cell of a row under a column is the value the row object holds for
\* that key, whatever the key order of the row object, and null when the
\* row lacks the key.
C6_ColumnsFollowMetadata ==
    (route = "fetch" /\ ServedJson /\ HasColumnNames(upstream.payload)) =>
        LET rows == upstream.payload.result.rows
            cols == upstream.payload.result.metadata.column_names
            df   == response.df
        IN  /\ response.kind = "results"
            /\ response.has_df
            /\ df.columns = cols
            /\ response.total = Len(rows)
            /\ DOMAIN df.records = DOMAIN rows
            /\ \A i \in DOMAIN rows :
                 /\ DOMAIN df.records[i] = DOMAIN cols
                 /\ \A c \in DOMAIN cols :
                      IF \E j \in DOMAIN rows[i] : rows[i][j].k = cols[c]
                      THEN \E j \in DOMAIN rows[i] :
                             /\ rows[i][j].k = cols[c]
                             /\ df.records[i][c] = [null |-> FALSE, v |-> rows[i][j].v]
                      ELSE df.records[i][c].null

\* column_names ["a","b"], a first row written {"b":.., "a":..} and a
\* second row without "b": the table has a before b and a null under b.
C6_Witness ==
    /\ route = "fetch"
    /\ ServedJson
    /\ HasColumnNames(upstream.payload)
    /\ upstream.payload.result.metadata.column_names = <<KeyA, KeyB>>
    /\ Len(upstream.payload.result.rows) = 2
    /\ row_keys(upstream.payload.result.rows[1]) = <<KeyB, KeyA>>
    /\ row_keys(upstream.payload.result.rows[2]) = <<KeyA>>
    /\ response.has_df
    /\ response.df.records[1] = <<[null |-> FALSE, v |-> 11], [null |-> FALSE, v |-> 12]>>
    /\ response.df.records[2][2].null

(***************************************************************************)
(* C7                                                                      *)
(***************************************************************************)

\* C7 (as claimed): in a Preview that passed validation, an answer with a
\* status outside 2xx ends with the message "HTTP error:" that carries the
\* status code and the reason phrase; a connection failure or a timeout
\* ends with "Network error:"; any other exception ends with "Unexpected
\* error:".  None renders a table.
C7_FailuresAreClassified ==
    (route = "fetch" /\ ~FailsValidation(form) /\ ServedFailure) =>
        /\ Flashed("danger")
        /\ response.flashes[1].message =
              IF ServedStatusFailure THEN
                  <<"HTTP error: ", ToString(upstream.status), " ", upstream.reason>>
              ELSE IF upstream.kind = "raises" /\ upstream.exc \in ConnectionFailures THEN
                  <<"Network error: ", upstream.text>>
              ELSE
                  <<"Unexpected error: ", upstream.text>>

(***************************************************************************)
(* C8                                                                      *)
(***************************************************************************)

\* C8: a request makes at most one upstream call and a request that passes
\* validation makes exactly one, with its own query id; a failed call ends
\* the request with an error and is not made again; a table or a file is
\* only ever produced from the call of the request itself, whatever other
\* requests are waiting or were answered before.
C8_OneCallPerRequest ==
    /\ Len(calls) <= 1
    /\ (Handled /\ ~FailsValidation(form)) =>
          calls = <<int(form_get(form, "query_id", <<>>)).value>>
    /\ (Handled /\ ServedFailure) => (Len(calls) = 1 /\ Flashed("danger"))
    /\ (Handled /\ response.kind \in {"results", "send_file"}) => (Len(calls) = 1 /\ ServedJson)
    /\ (Handled /\ calls = <<>>) => (upstream = NoUpstream /\ response.kind = "redirect")

\* A Download whose call timed out while another request waits for its
\* own call: one call, an error, no file.
C8_Witness ==
    /\ route = "download"
    /\ ~FailsValidation(form)
    /\ upstream.kind = "raises"
    /\ upstream.exc = "ReadTimeout"
    /\ calls = <<5>>
    /\ response.kind = "redirect"
    /\ inflight # EmptyBag

(***************************************************************************)
(* C9                                                                      *)
(***************************************************************************)

\* C9 (as claimed): in a Download that passed validation, for a
\* well-shaped payload with metadata.column_names, the CSV of Download is
\* the CSV of the table Preview shows for the same payload: the same
\* columns in the same order, the same values under each.
C9_DownloadMatchesPreview ==
    (route = "download" /\ ~FailsValidation(form) /\ ServedJson
        /\ HasColumnNames(upstream.payload)) =>
        /\ response.kind = "send_file"
        /\ response.csv = to_csv_bytes(fetch_table(upstream.payload))

(***************************************************************************)
(* C10                                                                     *)
(***************************************************************************)

\* C10 (as claimed): in a Download that passed validation, a payload that
\* is not an object, or has no result, or whose result has no rows, ends
\* with an error message and never with a file attachment.
C10_MalformedDownloadFails ==
    (route = "download" /\ ~FailsValidation(form) /\ ServedJson
        /\ Malformed(upstream.payload)) =>
        (response.kind # "send_file" /\ Flashed("danger"))

====
